---------------------------- MODULE Spec2Model ----------------------------
(***************************************************************************)
(* The registry-and-router of the Information Exchange server              *)
(* (src/server.cpp): the accept loop, one handle_client thread per         *)
(* accepted connection, the operator console thread, the directory         *)
(* active_clients and its lock clients_mutex; and a client                 *)
(* (src/client.cpp): its input loop and its receiver thread.               *)
(*                                                                         *)
(* Strings are sequences of one-character strings, so that find, substr,   *)
(* stoi and concatenation are computed as the code computes them.          *)
(***************************************************************************)
EXTENDS Integers, Sequences, FiniteSets, TLC

\* Number of connections the accept loop accepts in a run of the model.
MaxConn == 3

\* std::string::npos, the result of find when the character is absent.
npos == -1

\* The largest int: std::stoi throws std::out_of_range above it.
INT_MAX == 2147483647

\* The thread running handle_server_input.
Console == 0

Sessions == 1..MaxConn
Threads == Sessions \cup {Console}

\* File descriptors handed out by accept (lowest free one first).
FDs == 1..MaxConn

\* The peer address accept reports in client_addr.sin_addr.
ClientAddr(t) == "127.0.0.1"

------------------------------------------------------------------------------
(* std::string operations *)

\* The characters that occur, in ASCII order (for operator< on std::string).
Chars == <<" ", "'", "-", "0", "1", "2", "3", "4", "5", "6", "7", "8", "9", ":",
           "A", "B", "C", "D", "E", "F", "M", "O", "R", "S", "T", "V", "W", "Z",
           "e", "h", "i", "x">>

Ord(c) == CHOOSE i \in 1..Len(Chars) : Chars[i] = c

RECURSIVE FindFrom(_, _, _)
FindFrom(s, c, i) ==
    IF i > Len(s) THEN npos
    ELSE IF s[i] = c THEN i - 1
    ELSE FindFrom(s, c, i + 1)

\* s.find(c): the 0-based position of the first c, or npos.
Find(s, c) == FindFrom(s, c, 1)

\* s.substr(pos, n): at most n characters, fewer when s ends before.
SubstrN(s, pos, n) ==
    SubSeq(s, pos + 1, IF pos + n > Len(s) THEN Len(s) ELSE pos + n)

\* s.substr(pos)
Substr(s, pos) == SubSeq(s, pos + 1, Len(s))

RECURSIVE StrLess(_, _)
\* a < b on std::string: lexicographic, the key order of std::map.
StrLess(a, b) ==
    IF b = <<>> THEN FALSE
    ELSE IF a = <<>> THEN TRUE
    ELSE IF a[1] # b[1] THEN Ord(a[1]) < Ord(b[1])
    ELSE StrLess(Tail(a), Tail(b))

IsDigit(c) == c \in {"0", "1", "2", "3", "4", "5", "6", "7", "8", "9"}

DigitVal(c) == Ord(c) - Ord("0")

RECURSIVE SkipSpace(_, _)
SkipSpace(s, i) ==
    IF i <= Len(s) /\ s[i] = " " THEN SkipSpace(s, i + 1) ELSE i

RECURSIVE ParseDigits(_, _, _, _)
\* The longest run of digits of s from position i, accumulated as a negated
\* magnitude on top of acc; over is TRUE when the magnitude passes limit
\* (itself negated), where stoi reports out_of_range.
ParseDigits(s, i, acc, limit) ==
    IF i <= Len(s) /\ IsDigit(s[i])
    THEN IF acc < -214748364 \/ acc * 10 < limit + DigitVal(s[i])
         THEN [over |-> TRUE, val |-> 0]
         ELSE ParseDigits(s, i + 1, acc * 10 - DigitVal(s[i]), limit)
    ELSE [over |-> FALSE, val |-> acc]

\* std::stoi(s): leading whitespace skipped, an optional sign, then the longest
\* run of digits; what follows the digits is ignored. throws is TRUE when
\* there is no digit (invalid_argument) or the value does not fit an int
\* (out_of_range).
Stoi(s) ==
    LET i == SkipSpace(s, 1)
        signed == i <= Len(s) /\ s[i] \in {"-", "+"}
        neg == signed /\ s[i] = "-"
        j == IF signed THEN i + 1 ELSE i
        hasDigit == j <= Len(s) /\ IsDigit(s[j])
        r == ParseDigits(s, j, 0, IF neg THEN -INT_MAX - 1 ELSE -INT_MAX)
    IN  [throws |-> ~hasDigit \/ r.over,
         value |-> IF ~hasDigit \/ r.over THEN 0
                   ELSE IF neg THEN r.val ELSE -r.val]

\* htons(udp_port): the int converted to the 16 bits of sin_port.
Htons(p) == p % 65536

------------------------------------------------------------------------------
(* Literal texts of the server *)

BROADCAST == <<"B", "R", "O", "A", "D", "C", "A", "S", "T">>
BroadcastCmd == <<"B", "R", "O", "A", "D", "C", "A", "S", "T", ":">>
ExitCmd == <<"e", "x", "i", "t">>
QuitCmd == <<"q", "u", "i", "t">>
WelcomePrefix == <<"S", "E", "R", "V", "E", "R", ":", " ", "W", "e", "l", "c", "o", "m", "e", ",", " ">>
WelcomeSuffix == <<"!", " ", "T", "C", "P", " ", "a", "n", "d", " ", "U", "D", "P", " ", "s", "e", "r", "v", "i", "c", "e", "s", " ", "a", "c", "t", "i", "v", "e", ".">>
FromPrefix == <<"F", "R", "O", "M", " ">>
ColonSpace == <<":", " ">>
BroadcastFromPrefix == <<"B", "R", "O", "A", "D", "C", "A", "S", "T", " ", "F", "R", "O", "M", " ">>
ErrorPrefix == <<"S", "E", "R", "V", "E", "R", ":", " ", "E", "r", "r", "o", "r", ":", " ", "C", "a", "m", "p", "u", "s", " ", "'">>
ErrorSuffix == <<"'", " ", "i", "s", " ", "n", "o", "t", " ", "c", "u", "r", "r", "e", "n", "t", "l", "y", " ", "a", "c", "t", "i", "v", "e", ".">>
ServerBroadcastPrefix == <<"S", "E", "R", "V", "E", "R", " ", "B", "R", "O", "A", "D", "C", "A", "S", "T", ":", " ">>

\* welcome_msg of handle_client
WelcomeMsg(name) == WelcomePrefix \o name \o WelcomeSuffix

\* final_msg of route_tcp_message
FinalMsg(sender_name, content) ==
    FromPrefix \o sender_name \o ColonSpace \o content

\* broadcast_msg of route_tcp_message
BroadcastMsg(sender_name, content) ==
    BroadcastFromPrefix \o sender_name \o ColonSpace \o content

\* error_msg of route_tcp_message
ErrorMsg(destination) == ErrorPrefix \o destination \o ErrorSuffix

------------------------------------------------------------------------------
(* Inputs *)

\* First payloads a peer may send: well-formed registrations (one naming the
\* reserved token; two connections may send the same one), and payloads with
\* no separator or with a port segment that is not a positive decimal: empty,
\* not a number, digits followed by another character, negative.
RegPayloads ==
    { <<"A", ":", "1">>, <<"B", ":", "2">>,
      <<"B", "R", "O", "A", "D", "C", "A", "S", "T", ":", "4">>,
      <<"A">>, <<"A", ":">>, <<"A", ":", "x">>,
      <<"B", ":", "2", "x">>, <<"A", ":", "-", "6", "5", "5", "3", "5">> }

\* Later payloads: a directed message whose content holds a second ':', a
\* message to an identity nobody registers, a broadcast, a payload with no
\* separator.
Messages ==
    { <<"B", ":", "h", ":", "i">>, <<"Z", ":", "h">>,
      <<"B", "R", "O", "A", "D", "C", "A", "S", "T", ":", "h">>, <<"h">> }

\* Lines typed at the operator console.
ConsoleLines ==
    { <<"B", "R", "O", "A", "D", "C", "A", "S", "T", ":", "x">>,
      <<"e", "x", "i", "t">>, <<"h", "e", "l", "l", "o">> }

------------------------------------------------------------------------------
(* State *)

VARIABLES
    pc,             \* each thread's position in its function
    client_sock,    \* handle_client's client_sock (0 before accept)
    campus_name,    \* handle_client's campus_name
    udp_port,       \* handle_client's udp_port
    initial_msg,    \* handle_client's initial_msg, while in scope
    message,        \* the payload being routed; the console's line
    active_clients, \* the directory: the ClientInfo of each key (campus_name)
    entry_owner,    \* history: <<key, session>>, the thread that wrote each entry
    clients_mutex,  \* the set of threads holding the lock (none or one)
    open_fd,        \* per descriptor, the connection it is open on (none if closed)
    tcp_sent,       \* per thread, the send() calls of its current call
    udp_sent        \* per thread, the sendto() calls of its current broadcast

\* The state of one client process (src/client.cpp), from the start of its
\* receiver thread.
VARIABLES
    main_pc,        \* the main thread's position
    receiver_pc,    \* the receiver thread's position
    running,        \* the global running
    running_set_by, \* history: the threads that have written running = false
    tcp_sock,       \* the state of the stream socket
    udp_sock,       \* the state of the datagram socket
    readfds,        \* the descriptors select reported ready
    main_line,      \* main's line: what getline returned
    tcp_pending,    \* payloads from the server not yet read
    udp_pending,    \* datagrams not yet read
    loop_end        \* history: how the input loop ended

client_vars == <<main_pc, receiver_pc, running, running_set_by, tcp_sock,
                 udp_sock, readfds, main_line, tcp_pending, udp_pending, loop_end>>

server_vars == <<pc, client_sock, campus_name, udp_port, initial_msg, message,
                 active_clients, entry_owner, clients_mutex, open_fd, tcp_sent,
                 udp_sent>>

vars == <<server_vars, client_vars>>

Init ==
    /\ pc = [t \in Threads |-> IF t = Console THEN "console" ELSE "unborn"]
    /\ client_sock = [t \in Sessions |-> 0]
    /\ campus_name = [t \in Sessions |-> <<>>]
    /\ udp_port = [t \in Sessions |-> -1]
    /\ initial_msg = [t \in Sessions |-> <<>>]
    /\ message = [t \in Threads |-> <<>>]
    /\ active_clients = {}
    /\ entry_owner = {}
    /\ clients_mutex = {}
    /\ open_fd = [f \in FDs |-> {}]
    /\ tcp_sent = [t \in Threads |-> <<>>]
    /\ udp_sent = [t \in Threads |-> <<>>]
    /\ main_pc = "while"
    /\ receiver_pc = "while"
    /\ running = TRUE
    /\ running_set_by = {}
    /\ tcp_sock = "connected"
    /\ udp_sock = "bound"
    /\ readfds = {}
    /\ main_line = <<>>
    /\ tcp_pending = 0
    /\ udp_pending = 0
    /\ loop_end = "none"

\* The keys of the map.
Keys(m) == {e.campus_name : e \in m}

\* active_clients.find(name) != active_clients.end()
Found(name) == name \in Keys(active_clients)

\* it->second, for the iterator find(name) returned
Lookup(name) == CHOOSE e \in active_clients : e.campus_name = name

\* MapPut as it would be were the other keys lost by the assignment.
MutMapPutLosesOthers(m, info) == {info}

\* active_clients[info.campus_name] = info: an entry under that key is replaced.
MapPut(m, info) == {e \in m : e.campus_name # info.campus_name} \cup {info}

\* active_clients.erase(name)
MapErase(m, name) == {e \in m : e.campus_name # name}

\* One send(fd, data): the descriptor, the connection it is open on at that
\* moment (none: the call fails with EBADF) and whether the call succeeded.
SendRec(fd, data, ok) ==
    [fd |-> fd, conn |-> open_fd[fd], data |-> data,
     ok |-> ok /\ open_fd[fd] # {}]

\* A send whose result the code does not look at.
SendIgnored(fd, data) == SendRec(fd, data, TRUE)

------------------------------------------------------------------------------
(* main: the accept loop *)

\* accept returns the lowest descriptor that is not open.
LowestFree == CHOOSE f \in FDs : open_fd[f] = {} /\ \A g \in FDs : g < f => open_fd[g] # {}

\* A connection is accepted and its handle_client thread started. Connections
\* are numbered in the order of their accept. (A failed accept changes
\* nothing and the loop continues.)
Accept(t) ==
    /\ pc[t] = "unborn"
    /\ \A u \in Sessions : u < t => pc[u] # "unborn"
    /\ client_sock' = [client_sock EXCEPT ![t] = LowestFree]
    /\ open_fd' = [open_fd EXCEPT ![LowestFree] = {t}]
    /\ pc' = [pc EXCEPT ![t] = "recv_reg"]
    /\ UNCHANGED <<client_vars, campus_name, udp_port, initial_msg, message, active_clients,
                   entry_owner, clients_mutex, tcp_sent, udp_sent>>

------------------------------------------------------------------------------
(* handle_client: registration *)

\* Where the first payload leads: "reg_lock" when the name and the port were
\* parsed (is_registered = true), "reg_fail" otherwise.
RegOutcome(msg) ==
    IF Find(msg, ":") = npos THEN "reg_fail"
    ELSE IF Stoi(Substr(msg, Find(msg, ":") + 1)).throws THEN "reg_fail"
    ELSE "reg_lock"

\* The first recv returns a payload, which is parsed. When the parse fails
\* control leaves the block that declares initial_msg.
RecvReg(t) ==
    /\ pc[t] = "recv_reg"
    /\ \E msg \in RegPayloads :
        LET colon_pos == Find(msg, ":") IN
        /\ initial_msg' = [initial_msg EXCEPT ![t] =
               IF RegOutcome(msg) = "reg_lock" THEN msg ELSE <<>>]
        /\ campus_name' = [campus_name EXCEPT ![t] =
               IF colon_pos # npos THEN SubstrN(msg, 0, colon_pos) ELSE <<>>]
        /\ udp_port' = [udp_port EXCEPT ![t] =
               IF RegOutcome(msg) = "reg_lock"
               THEN Stoi(Substr(msg, colon_pos + 1)).value ELSE -1]
        /\ pc' = [pc EXCEPT ![t] = RegOutcome(msg)]
    /\ UNCHANGED <<client_vars, client_sock, message, active_clients, entry_owner,
                   clients_mutex, open_fd, tcp_sent, udp_sent>>

\* The first recv returns 0 or an error.
RecvRegEof(t) ==
    /\ pc[t] = "recv_reg"
    /\ pc' = [pc EXCEPT ![t] = "reg_fail"]
    /\ UNCHANGED <<client_vars, client_sock, campus_name, udp_port, initial_msg, message,
                   active_clients, entry_owner, clients_mutex, open_fd,
                   tcp_sent, udp_sent>>

\* The ClientInfo that registration stores.
NewClientInfo(t) ==
    [tcp_socket |-> client_sock[t],
     campus_name |-> campus_name[t],
     udp_addr |-> [sin_addr |-> ClientAddr(t), sin_port |-> Htons(udp_port[t])]]

\* lock_guard, then active_clients[campus_name] = {...}.
RegInsert(t) ==
    /\ pc[t] = "reg_lock"
    /\ clients_mutex = {}
    /\ clients_mutex' = {t}
    /\ active_clients' = MapPut(active_clients, NewClientInfo(t))
    /\ entry_owner' = {o \in entry_owner : o[1] # campus_name[t]}
                          \cup {<<campus_name[t], t>>}
    /\ pc' = [pc EXCEPT ![t] = "reg_welcome"]
    /\ UNCHANGED <<client_vars, client_sock, campus_name, udp_port, initial_msg, message,
                   open_fd, tcp_sent, udp_sent>>

\* send(client_sock, welcome_msg), its result ignored.
RegWelcome(t) ==
    /\ pc[t] = "reg_welcome"
    /\ tcp_sent' = [tcp_sent EXCEPT ![t] =
           <<SendIgnored(client_sock[t], WelcomeMsg(campus_name[t]))>>]
    /\ pc' = [pc EXCEPT ![t] = "reg_unlock"]
    /\ UNCHANGED <<client_vars, client_sock, campus_name, udp_port, initial_msg, message,
                   active_clients, entry_owner, clients_mutex, open_fd,
                   udp_sent>>

\* The try block ends: the lock_guard releases, initial_msg goes out of scope,
\* udp_port is not read again, and the receive loop is entered.
RegUnlock(t) ==
    /\ pc[t] = "reg_unlock"
    /\ clients_mutex' = clients_mutex \ {t}
    /\ initial_msg' = [initial_msg EXCEPT ![t] = <<>>]
    /\ udp_port' = [udp_port EXCEPT ![t] = -1]
    /\ tcp_sent' = [tcp_sent EXCEPT ![t] = <<>>]
    /\ pc' = [pc EXCEPT ![t] = "recv_msg"]
    /\ UNCHANGED <<client_vars, client_sock, campus_name, message, active_clients,
                   entry_owner, open_fd, udp_sent>>

\* RegFail as it would be were the removal invoked on this path too.
MutRegFailErases(t) ==
    /\ pc[t] = "reg_fail"
    /\ open_fd' = [open_fd EXCEPT ![client_sock[t]] = {}]
    /\ active_clients' = MapErase(active_clients, campus_name[t])
    /\ entry_owner' = {o \in entry_owner : o[1] # campus_name[t]}
    /\ campus_name' = [campus_name EXCEPT ![t] = <<>>]
    /\ client_sock' = [client_sock EXCEPT ![t] = 0]
    /\ pc' = [pc EXCEPT ![t] = "rejected"]
    /\ UNCHANGED <<client_vars, udp_port, initial_msg, message, clients_mutex, tcp_sent,
                   udp_sent>>

\* RegFail as it would be without the return: the receive loop is entered by
\* a connection that did not register.
MutRegFailEntersLoop(t) ==
    /\ pc[t] = "reg_fail"
    /\ pc' = [pc EXCEPT ![t] = "recv_msg"]
    /\ UNCHANGED <<client_vars, client_sock, campus_name, udp_port, initial_msg, message,
                   active_clients, entry_owner, clients_mutex, open_fd,
                   tcp_sent, udp_sent>>

\* !is_registered: close(client_sock); return.
RegFail(t) ==
    /\ pc[t] = "reg_fail"
    /\ open_fd' = [open_fd EXCEPT ![client_sock[t]] = {}]
    /\ campus_name' = [campus_name EXCEPT ![t] = <<>>]
    /\ client_sock' = [client_sock EXCEPT ![t] = 0]
    /\ pc' = [pc EXCEPT ![t] = "rejected"]
    /\ UNCHANGED <<client_vars, udp_port, initial_msg, message, active_clients,
                   entry_owner, clients_mutex, tcp_sent, udp_sent>>

------------------------------------------------------------------------------
(* route_tcp_message *)

\* destination of route_tcp_message
Destination(full_message) == SubstrN(full_message, 0, Find(full_message, ":"))

\* content of route_tcp_message
Content(full_message) == Substr(full_message, Find(full_message, ":") + 1)

\* RouteBranch as it would be without the check for a missing separator.
MutRouteBranchNoCheck(full_message) ==
    IF Destination(full_message) = BROADCAST THEN "bcast_lock" ELSE "route_lock"

\* Where route_tcp_message goes once the payload is parsed: it returns when
\* there is no separator, broadcasts when the destination is the reserved
\* token, and otherwise takes the lock to look the destination up.
RouteBranch(full_message) ==
    IF Find(full_message, ":") = npos THEN "route_ret"
    ELSE IF Destination(full_message) = BROADCAST THEN "bcast_lock"
    ELSE "route_lock"

\* RecvMsg as it would be were the next payload read while the lookup for the
\* previous one is still waiting.
MutRecvMsgOvertakes(t) ==
    /\ pc[t] \in {"recv_msg", "route_lock"}
    /\ \E m \in Messages :
        /\ message' = [message EXCEPT ![t] = m]
        /\ pc' = [pc EXCEPT ![t] = RouteBranch(m)]
    /\ UNCHANGED <<client_vars, client_sock, campus_name, udp_port, initial_msg,
                   active_clients, entry_owner, clients_mutex, open_fd,
                   tcp_sent, udp_sent>>

\* The loop's recv returns a payload and route_tcp_message parses it.
RecvMsg(t) ==
    /\ pc[t] = "recv_msg"
    /\ \E m \in Messages :
        /\ message' = [message EXCEPT ![t] = m]
        /\ pc' = [pc EXCEPT ![t] = RouteBranch(m)]
    /\ UNCHANGED <<client_vars, client_sock, campus_name, udp_port, initial_msg,
                   active_clients, entry_owner, clients_mutex, open_fd,
                   tcp_sent, udp_sent>>

\* RouteLookup as it would be without the lock_guard.
MutRouteLookupNoLock(t) ==
    /\ pc[t] = "route_lock"
    /\ pc' = [pc EXCEPT ![t] =
           IF Found(Destination(message[t])) THEN "route_send" ELSE "route_notfound"]
    /\ UNCHANGED <<client_vars, client_sock, campus_name, udp_port, initial_msg, message,
                   active_clients, entry_owner, clients_mutex, open_fd,
                   tcp_sent, udp_sent>>

\* lock_guard, then active_clients.find(destination).
RouteLookup(t) ==
    /\ pc[t] = "route_lock"
    /\ clients_mutex = {}
    /\ clients_mutex' = {t}
    /\ pc' = [pc EXCEPT ![t] =
           IF Found(Destination(message[t])) THEN "route_send" ELSE "route_notfound"]
    /\ UNCHANGED <<client_vars, client_sock, campus_name, udp_port, initial_msg, message,
                   active_clients, entry_owner, open_fd, tcp_sent, udp_sent>>

\* send(dest_sock, final_msg); a failure is only logged.
RouteSend(t) ==
    /\ pc[t] = "route_send"
    /\ \E ok \in BOOLEAN :
        tcp_sent' = [tcp_sent EXCEPT ![t] =
            <<SendRec(Lookup(Destination(message[t])).tcp_socket,
                      FinalMsg(campus_name[t], Content(message[t])), ok)>>]
    /\ pc' = [pc EXCEPT ![t] = "route_ret"]
    /\ UNCHANGED <<client_vars, client_sock, campus_name, udp_port, initial_msg, message,
                   active_clients, entry_owner, clients_mutex, open_fd,
                   udp_sent>>

\* The destination was not found: the sender's own entry is looked up and,
\* when present, the notice is sent on the socket stored there.
RouteNotFound(t) ==
    /\ pc[t] = "route_notfound"
    /\ tcp_sent' = [tcp_sent EXCEPT ![t] =
           IF Found(campus_name[t])
           THEN <<SendIgnored(Lookup(campus_name[t]).tcp_socket,
                              ErrorMsg(Destination(message[t])))>>
           ELSE <<>>]
    /\ pc' = [pc EXCEPT ![t] = "route_ret"]
    /\ UNCHANGED <<client_vars, client_sock, campus_name, udp_port, initial_msg, message,
                   active_clients, entry_owner, clients_mutex, open_fd,
                   udp_sent>>

\* route_tcp_message returns (its lock_guard, if taken, releases) and the
\* loop calls recv again.
RouteReturn(t) ==
    /\ pc[t] = "route_ret"
    /\ clients_mutex' = clients_mutex \ {t}
    /\ message' = [message EXCEPT ![t] = <<>>]
    /\ tcp_sent' = [tcp_sent EXCEPT ![t] = <<>>]
    /\ udp_sent' = [udp_sent EXCEPT ![t] = <<>>]
    /\ pc' = [pc EXCEPT ![t] = "recv_msg"]
    /\ UNCHANGED <<client_vars, client_sock, campus_name, udp_port, initial_msg,
                   active_clients, entry_owner, open_fd>>

------------------------------------------------------------------------------
(* send_udp_broadcast *)

\* The message broadcast by thread t: the console's, or a client's.
BroadcastText(t) ==
    IF t = Console THEN ServerBroadcastPrefix \o Substr(message[t], 10)
    ELSE BroadcastMsg(campus_name[t], Content(message[t]))

\* The entries the range-for has not visited yet.
Unvisited(t) ==
    {e \in active_clients :
        \A i \in 1..Len(udp_sent[t]) : udp_sent[t][i].name # e.campus_name}

\* The entry the iterator is at: the unvisited one with the least key.
Current(t) ==
    CHOOSE e \in Unvisited(t) :
        \A o \in Unvisited(t) : o = e \/ StrLess(e.campus_name, o.campus_name)

\* success_count and fail_count of send_udp_broadcast
SuccessCount(t) == Cardinality({i \in 1..Len(udp_sent[t]) : udp_sent[t][i].ok})
FailCount(t) == Cardinality({i \in 1..Len(udp_sent[t]) : ~udp_sent[t][i].ok})

\* lock_guard at the start of send_udp_broadcast; the range-for begins.
BcastLock(t) ==
    /\ pc[t] = "bcast_lock"
    /\ clients_mutex = {}
    /\ clients_mutex' = {t}
    /\ pc' = [pc EXCEPT ![t] =
           IF active_clients = {} THEN "bcast_ret" ELSE "bcast_send"]
    /\ UNCHANGED <<client_vars, client_sock, campus_name, udp_port, initial_msg, message,
                   active_clients, entry_owner, open_fd, tcp_sent, udp_sent>>

\* BcastSend as it would be were the loop left at the first failed sendto.
MutBcastSendAbort(t) ==
    /\ pc[t] = "bcast_send"
    /\ \E ok \in BOOLEAN :
        /\ udp_sent' = [udp_sent EXCEPT ![t] =
               Append(@, [name |-> Current(t).campus_name,
                          addr |-> Current(t).udp_addr,
                          data |-> BroadcastText(t),
                          ok |-> ok])]
        /\ pc' = [pc EXCEPT ![t] =
               IF ~ok \/ Unvisited(t) = {Current(t)} THEN "bcast_ret"
               ELSE "bcast_send"]
    /\ UNCHANGED <<client_vars, client_sock, campus_name, udp_port, initial_msg, message,
                   active_clients, entry_owner, clients_mutex, open_fd,
                   tcp_sent>>

\* One sendto(udp_broadcast_socket, message, client.udp_addr): it succeeds or
\* fails, is counted, and the loop goes on to the next entry.
BcastSend(t) ==
    /\ pc[t] = "bcast_send"
    /\ \E ok \in BOOLEAN :
        udp_sent' = [udp_sent EXCEPT ![t] =
            Append(@, [name |-> Current(t).campus_name,
                       addr |-> Current(t).udp_addr,
                       data |-> BroadcastText(t),
                       ok |-> ok])]
    /\ pc' = [pc EXCEPT ![t] =
           IF Unvisited(t) = {Current(t)} THEN "bcast_ret" ELSE "bcast_send"]
    /\ UNCHANGED <<client_vars, client_sock, campus_name, udp_port, initial_msg, message,
                   active_clients, entry_owner, clients_mutex, open_fd,
                   tcp_sent>>

\* BcastReturn as it would be were the lock not released on return.
MutBcastReturnKeepsLock(t) ==
    /\ pc[t] = "bcast_ret"
    /\ message' = [message EXCEPT ![t] = <<>>]
    /\ udp_sent' = [udp_sent EXCEPT ![t] = <<>>]
    /\ pc' = [pc EXCEPT ![t] = IF t = Console THEN "console" ELSE "recv_msg"]
    /\ UNCHANGED <<client_vars, client_sock, campus_name, udp_port, initial_msg,
                   active_clients, entry_owner, clients_mutex, open_fd,
                   tcp_sent>>

\* The summary is printed, send_udp_broadcast returns and its lock_guard
\* releases; the caller (route_tcp_message, or the console loop) goes on.
BcastReturn(t) ==
    /\ pc[t] = "bcast_ret"
    /\ clients_mutex' = clients_mutex \ {t}
    /\ message' = [message EXCEPT ![t] = <<>>]
    /\ udp_sent' = [udp_sent EXCEPT ![t] = <<>>]
    /\ pc' = [pc EXCEPT ![t] = IF t = Console THEN "console" ELSE "recv_msg"]
    /\ UNCHANGED <<client_vars, client_sock, campus_name, udp_port, initial_msg,
                   active_clients, entry_owner, open_fd, tcp_sent>>

------------------------------------------------------------------------------
(* handle_client: disconnect *)

\* The loop's recv returns 0 (the peer closed) or an error: the loop ends.
RecvEof(t) ==
    /\ pc[t] = "recv_msg"
    /\ pc' = [pc EXCEPT ![t] = "close"]
    /\ UNCHANGED <<client_vars, client_sock, campus_name, udp_port, initial_msg, message,
                   active_clients, entry_owner, clients_mutex, open_fd,
                   tcp_sent, udp_sent>>

\* close(client_sock), before the lock is taken.
CloseSock(t) ==
    /\ pc[t] = "close"
    /\ open_fd' = [open_fd EXCEPT ![client_sock[t]] = {}]
    /\ pc' = [pc EXCEPT ![t] = "unreg_lock"]
    /\ UNCHANGED <<client_vars, client_sock, campus_name, udp_port, initial_msg, message,
                   active_clients, entry_owner, clients_mutex, tcp_sent,
                   udp_sent>>

\* lock_guard, then active_clients.erase(campus_name).
Unregister(t) ==
    /\ pc[t] = "unreg_lock"
    /\ clients_mutex = {}
    /\ clients_mutex' = {t}
    /\ active_clients' = MapErase(active_clients, campus_name[t])
    /\ entry_owner' = {o \in entry_owner : o[1] # campus_name[t]}
    /\ pc' = [pc EXCEPT ![t] = "unreg_ret"]
    /\ UNCHANGED <<client_vars, client_sock, campus_name, udp_port, initial_msg, message,
                   open_fd, tcp_sent, udp_sent>>

\* handle_client returns: the lock_guard releases and the thread ends.
ThreadExit(t) ==
    /\ pc[t] = "unreg_ret"
    /\ clients_mutex' = clients_mutex \ {t}
    /\ client_sock' = [client_sock EXCEPT ![t] = 0]
    /\ campus_name' = [campus_name EXCEPT ![t] = <<>>]
    /\ pc' = [pc EXCEPT ![t] = "done"]
    /\ UNCHANGED <<client_vars, udp_port, initial_msg, message,
                   active_clients, entry_owner, open_fd,
                   tcp_sent, udp_sent>>

------------------------------------------------------------------------------
(* handle_server_input *)

\* What a console line does: "bcast_lock" for BROADCAST:<text>, "exited" for
\* exit or quit, "console" (a warning, or nothing) for any other line.
ConsoleBranch(line) ==
    IF SubstrN(line, 0, 10) = BroadcastCmd THEN "bcast_lock"
    ELSE IF line = ExitCmd \/ line = QuitCmd THEN "exited"
    ELSE "console"

\* getline returns BROADCAST:<text>: send_udp_broadcast is called.
ConsoleBroadcast ==
    /\ pc[Console] = "console"
    /\ \E line \in ConsoleLines :
        /\ ConsoleBranch(line) = "bcast_lock"
        /\ message' = [message EXCEPT ![Console] = line]
    /\ pc' = [pc EXCEPT ![Console] = "bcast_lock"]
    /\ UNCHANGED <<client_vars, client_sock, campus_name, udp_port, initial_msg,
                   active_clients, entry_owner, clients_mutex, open_fd,
                   tcp_sent, udp_sent>>

\* getline returns a line that is no command: a warning, nothing changes.
ConsoleUnknown ==
    /\ pc[Console] = "console"
    /\ \E line \in ConsoleLines : ConsoleBranch(line) = "console"
    /\ UNCHANGED vars

\* getline returns exit or quit: exit(0) ends the process, whatever its
\* threads are doing; nothing of its state is left.
ConsoleExit ==
    /\ pc[Console] = "console"
    /\ \E line \in ConsoleLines : ConsoleBranch(line) = "exited"
    /\ pc' = [t \in Threads |-> "exited"]
    /\ client_sock' = [t \in Sessions |-> 0]
    /\ campus_name' = [t \in Sessions |-> <<>>]
    /\ udp_port' = [t \in Sessions |-> -1]
    /\ initial_msg' = [t \in Sessions |-> <<>>]
    /\ message' = [t \in Threads |-> <<>>]
    /\ active_clients' = {}
    /\ entry_owner' = {}
    /\ clients_mutex' = {}
    /\ open_fd' = [f \in FDs |-> {}]
    /\ tcp_sent' = [t \in Threads |-> <<>>]
    /\ udp_sent' = [t \in Threads |-> <<>>]
    /\ UNCHANGED client_vars

------------------------------------------------------------------------------
(* The system *)

\* A step of the connection numbered t: its accept, or a step of its
\* handle_client thread other than a broadcast's.
SessionStep(t) ==
    \/ Accept(t)
    \/ RecvReg(t)
    \/ RecvRegEof(t)
    \/ RegInsert(t)
    \/ RegWelcome(t)
    \/ RegUnlock(t)
    \/ RegFail(t)
    \/ RecvMsg(t)
    \/ RecvEof(t)
    \/ RouteLookup(t)
    \/ RouteSend(t)
    \/ RouteNotFound(t)
    \/ RouteReturn(t)
    \/ CloseSock(t)
    \/ Unregister(t)
    \/ ThreadExit(t)

\* A step of send_udp_broadcast, called by thread t.
BroadcastStep(t) ==
    \/ BcastLock(t)
    \/ BcastSend(t)
    \/ BcastReturn(t)

\* A step of the console thread's input loop.
ConsoleStep ==
    \/ ConsoleBroadcast
    \/ ConsoleUnknown
    \/ ConsoleExit

Next ==
    \/ \E t \in Sessions : SessionStep(t)
    \/ \E t \in Threads : BroadcastStep(t)
    \/ ConsoleStep

Spec == Init /\ [][Next]_vars

\* Number of connections accepted in the runs checked for liveness.
LiveConn == 2

\* The system when only the first LiveConn connections ever arrive.
LiveNext ==
    \/ \E t \in 1..LiveConn : SessionStep(t)
    \/ \E t \in {Console} \cup 1..LiveConn : BroadcastStep(t)
    \/ ConsoleStep

\* The steps of thread t that wait for clients_mutex.
Acquire(t) ==
    \/ BcastLock(t)
    \/ /\ t \in Sessions
       /\ (RegInsert(t) \/ RouteLookup(t) \/ Unregister(t))

\* The other steps of thread t that need no input: once started they go on
\* (every send, sendto and close returns).
Internal(t) ==
    \/ BcastSend(t) \/ BcastReturn(t)
    \/ /\ t \in Sessions
       /\ \/ RegWelcome(t) \/ RegUnlock(t) \/ RegFail(t)
          \/ RouteSend(t) \/ RouteNotFound(t) \/ RouteReturn(t)
          \/ CloseSock(t) \/ ThreadExit(t)

\* Fair scheduling of the threads: a thread that can run does, and a thread
\* waiting for the lock gets it if the lock is free again and again. Nothing
\* is assumed of the peers and the operator: input may stop arriving.
FairSpec ==
    /\ Init /\ [][LiveNext]_vars
    /\ \A t \in Threads : WF_vars(Internal(t)) /\ SF_vars(Acquire(t))

------------------------------------------------------------------------------
(* Vocabulary of the properties *)

\* The identities that registrations name.
Identities ==
    {SubstrN(p, 0, Find(p, ":")) : p \in {q \in RegPayloads : Find(q, ":") # npos}}

\* Session t is in its receive loop (recv pending, or routing a payload).
InLoop(t) ==
    pc[t] \in {"recv_msg", "route_lock", "route_send", "route_notfound",
               "route_ret", "bcast_lock", "bcast_send", "bcast_ret"}

\* Session t has written its directory entry and its receive has not yet
\* returned EOF or an error.
Live(t) == pc[t] \in {"reg_welcome", "reg_unlock"} \/ InLoop(t)

\* Session t has written its directory entry and has not yet run its removal.
Active(t) == Live(t) \/ pc[t] \in {"close", "unreg_lock"}

\* The session whose registration wrote the entry under name.
OwnerOf(name) == CHOOSE o \in Sessions : <<name, o>> \in entry_owner

\* The payload has a separator.
HasColon(m) == \E i \in 1..Len(m) : m[i] = ":"

\* The positions of the first ':' of m (1-based), stated without find.
FirstColon(m) ==
    CHOOSE i \in 1..Len(m) : m[i] = ":" /\ \A j \in 1..(i - 1) : m[j] # ":"

\* What precedes and what follows the first ':'.
BeforeColon(m) == [j \in 1..(FirstColon(m) - 1) |-> m[j]]
AfterColon(m) == [j \in 1..(Len(m) - FirstColon(m)) |-> m[FirstColon(m) + j]]

------------------------------------------------------------------------------
(* Registration uniqueness and the directory invariant *)

\* C1: while a session that registered identity X is live, a second
\* connection naming X is rejected: X's entry keeps the first session's
\* handle and address, and the second connection never becomes a registered
\* session under X. So no two live sessions carry the same identity, and a
\* live session's entry is never rewritten by another thread.
C1_DuplicateRejected ==
    /\ \A t1 \in Sessions : \A t2 \in Sessions :
          (t1 # t2 /\ Live(t1) /\ Live(t2)) => campus_name[t1] # campus_name[t2]
    /\ \A e \in active_clients :
          Live(OwnerOf(e.campus_name)) =>
              e.tcp_socket = client_sock[OwnerOf(e.campus_name)]

\* C2: in every reachable state the directory has an entry for X exactly
\* when the session that created the entry is active, and a session that has
\* registered and has not seen EOF or an error has an entry that holds its
\* own stream handle.
C2_EntryIffActive ==
    /\ \A e \in active_clients :
          /\ Active(OwnerOf(e.campus_name))
          /\ campus_name[OwnerOf(e.campus_name)] = e.campus_name
    /\ \A t \in Sessions :
          Live(t) =>
              /\ Found(campus_name[t])
              /\ Lookup(campus_name[t]).tcp_socket = client_sock[t]

------------------------------------------------------------------------------
(* Directed routing *)

\* The routed form of content sent by sender: FROM <sender>: <content>.
RoutedForm(sender, content) ==
    <<"F", "R", "O", "M", " ">> \o sender \o <<":", " ">> \o content

\* Session t has completed a call of route_tcp_message for a payload with a
\* separator and a destination that the directory holds.
RoutedToRegistered(t) ==
    /\ pc[t] \in {"route_ret", "bcast_ret"}
    /\ HasColon(message[t])
    /\ Found(BeforeColon(message[t]))

\* The one stream write claimed for a directed message: on the handle stored
\* in the destination's entry, carrying the routed form.
OneRoutedWrite(t) ==
    /\ Len(tcp_sent[t]) = 1
    /\ tcp_sent[t][1].fd = Lookup(BeforeColon(message[t])).tcp_socket
    /\ tcp_sent[t][1].data = RoutedForm(campus_name[t], AfterColon(message[t]))

\* C3: for registered identities A and B, routing B:<content> for A performs
\* exactly one stream write, on the handle of B's session, with payload
\* FROM A: <content>, and the write reaches the connection of no other
\* session.
C3_RoutedToDestination ==
    \A t \in Sessions :
        RoutedToRegistered(t) =>
            /\ OneRoutedWrite(t)
            /\ tcp_sent[t][1].conn = {OwnerOf(BeforeColon(message[t]))}

\* C4: when a registered sender routes a payload to a destination that is not
\* in the directory, the notice is written to the sender's own connection and
\* to no other stream.
C4_NoticeToSender ==
    \A t \in Sessions :
        (/\ pc[t] = "route_ret"
         /\ HasColon(message[t])
         /\ ~Found(BeforeColon(message[t]))) =>
            /\ Len(tcp_sent[t]) = 1
            /\ tcp_sent[t][1].fd = client_sock[t]
            /\ tcp_sent[t][1].conn = {t}

------------------------------------------------------------------------------
(* Broadcast *)

\* The text a broadcast by thread t carries: the announcement of a client's
\* BROADCAST:<content>, or of the console's BROADCAST:<text>.
Announcement(t) ==
    IF t = Console
    THEN <<"S", "E", "R", "V", "E", "R", " ", "B", "R", "O", "A", "D", "C", "A", "S", "T", ":", " ">>
             \o AfterColon(message[t])
    ELSE <<"B", "R", "O", "A", "D", "C", "A", "S", "T", " ", "F", "R", "O", "M", " ">>
             \o campus_name[t] \o <<":", " ">> \o AfterColon(message[t])

\* The sendto calls of t's broadcast that went to entry e.
SendsTo(t, e) ==
    {i \in 1..Len(udp_sent[t]) : udp_sent[t][i].name = e.campus_name}

\* C5: a broadcast of text T performs exactly one datagram send of T to the
\* address of every identity registered at the time, the originating client
\* included; a failed send does not stop the sends to the remaining entries,
\* and succeeded plus failed sends equal the number of directory entries.
C5_BroadcastFanOut ==
    \A t \in Threads :
        pc[t] = "bcast_ret" =>
            /\ \A e \in active_clients :
                  /\ Cardinality(SendsTo(t, e)) = 1
                  /\ \A i \in SendsTo(t, e) :
                        /\ udp_sent[t][i].addr = e.udp_addr
                        /\ udp_sent[t][i].data = Announcement(t)
            /\ Len(udp_sent[t]) = Cardinality(active_clients)
            /\ SuccessCount(t) + FailCount(t) = Cardinality(active_clients)

\* A client's broadcast has gone to three entries, its own included, and the
\* first send failed.
C5_Witness ==
    \E t \in Sessions :
        /\ pc[t] = "bcast_ret"
        /\ Cardinality(active_clients) = 3
        /\ Found(campus_name[t])
        /\ Len(udp_sent[t]) = 3
        /\ ~udp_sent[t][1].ok
        /\ udp_sent[t][3].ok

------------------------------------------------------------------------------
(* Sends and the directory lock *)

\* C7: a broadcast releases the lock before its first datagram send: in no
\* reachable state is a broadcast's sendto in progress while clients_mutex is
\* held.
C7_BroadcastSendsUnlocked ==
    \A t \in Threads : pc[t] = "bcast_send" => clients_mutex = {}

\* C8: the stream write of a directed message is performed after the lock
\* has been released: in no reachable state is a routing write in progress
\* while the writing thread holds clients_mutex.
C8_RouteWriteUnlocked ==
    \A t \in Sessions : pc[t] = "route_send" => t \notin clients_mutex

------------------------------------------------------------------------------
(* Malformed input *)

\* The port segment is a positive decimal integer: digits only, not all 0.
ValidPort(seg) ==
    /\ seg # <<>>
    /\ \A i \in 1..Len(seg) : seg[i] \in {"0", "1", "2", "3", "4", "5", "6", "7", "8", "9"}
    /\ \E i \in 1..Len(seg) : seg[i] # "0"

\* The first payload is <identity>:<datagram_port> with a valid port.
WellFormedRegistration(m) == HasColon(m) /\ ValidPort(AfterColon(m))

\* C9: a first payload with no separator, or whose port segment is not a
\* valid positive decimal integer, fails registration: no directory entry is
\* created and no confirmation is sent.
C9_MalformedRegistrationFails ==
    \A t \in Sessions :
        (initial_msg[t] # <<>> /\ ~WellFormedRegistration(initial_msg[t])) =>
            /\ pc[t] \notin {"reg_welcome", "reg_unlock"}
            /\ \A e \in active_clients : OwnerOf(e.campus_name) # t

\* The step of session t receives a payload that has no separator.
ReceivesMalformed(t) ==
    /\ pc[t] = "recv_msg"
    /\ message'[t] # <<>>
    /\ ~HasColon(message'[t])

\* The step of session t ends the routing of a payload that has no separator.
ReturnsFromMalformed(t) ==
    /\ pc[t] = "route_ret"
    /\ ~HasColon(message[t])
    /\ pc'[t] # pc[t]

\* Everything but session t's position and payload is left as it was.
OnlyPositionChanges(t) ==
    /\ UNCHANGED <<client_sock, campus_name, udp_port, initial_msg,
                   active_clients, entry_owner, clients_mutex, open_fd,
                   tcp_sent, udp_sent>>
    /\ \A u \in Threads \ {t} : pc'[u] = pc[u] /\ message'[u] = message[u]

\* C10: a post-registration payload with no separator is dropped: no stream
\* write, no datagram send, the directory unchanged, the session back in its
\* receive loop, in the state it was in before the payload arrived (so the
\* next payload is routed as if the malformed one had never been sent).
C10_MalformedDropped ==
    [][\/ pc'[Console] = "exited"
       \/ \A t \in Sessions :
             /\ ReceivesMalformed(t) =>
                   /\ pc'[t] = "route_ret"
                   /\ OnlyPositionChanges(t)
             /\ ReturnsFromMalformed(t) =>
                   /\ pc'[t] = "recv_msg"
                   /\ message'[t] = <<>>
                   /\ OnlyPositionChanges(t)
                   /\ tcp_sent[t] = <<>> /\ udp_sent[t] = <<>>]_vars

\* A session in the directory, with two others, has dropped a payload with
\* no separator.
C10_Witness ==
    \E t \in Sessions :
        /\ pc[t] = "route_ret"
        /\ message[t] # <<>>
        /\ ~HasColon(message[t])
        /\ Found(campus_name[t])
        /\ Cardinality(active_clients) = 3

------------------------------------------------------------------------------
(* Clean removal *)

\* The step of session t performs the stream write of a directed message.
WritesRouted(t) == pc[t] = "route_send" /\ pc'[t] = "route_ret"

\* The session that wrote the entry under name has seen EOF or an error.
Disconnected(name) == pc[OwnerOf(name)] \in {"close", "unreg_lock"}

\* Once session t's receive has returned EOF or an error, the directory
\* eventually has no entry for its identity.
EventuallyRemoved ==
    \A t \in Sessions : \A X \in Identities :
        (pc[t] = "close" /\ campus_name[t] = X) ~> ~Found(X)

\* From the moment a session's receive returns EOF or an error, no routed
\* message is written to a handle of its identity.
NoWriteFromDisconnect ==
    [][\A t \in Sessions :
          WritesRouted(t) => ~Disconnected(Destination(message[t]))]_vars

\* C6: after a registered session's receive returns EOF or an error, the
\* directory eventually (under fair scheduling) has no entry for its
\* identity, and from the moment of that disconnect no routed message is
\* written to a handle belonging to that identity.
C6_CleanRemoval == EventuallyRemoved /\ NoWriteFromDisconnect

------------------------------------------------------------------------------
(* Serialization of the directory *)

\* The process has ended (exit(0) from the console).
Exited == pc[Console] = "exited"

\* Thread t is between a find, or the begin of the iteration, and the last
\* read it makes through the iterator or of size().
ReadsDirectory(t) ==
    pc[t] \in {"route_send", "route_notfound", "bcast_send", "bcast_ret"}

\* Thread t has inserted or erased and has not left the scope of its guard.
WroteDirectory(t) == pc[t] \in {"reg_welcome", "reg_unlock", "unreg_ret"}

\* The step changes the directory by taking the free lock.
ChangesUnderLock ==
    \E t \in Sessions : clients_mutex = {} /\ clients_mutex' = {t}

\* C11: every read or write of the directory (insert, erase, lookup,
\* iteration and size read) is performed while holding clients_mutex: at most
\* one thread holds it, a thread inside a directory operation is the holder,
\* and the directory changes only in a step of the thread that takes the lock.
C11_DirectoryUnderLock ==
    /\ [](/\ Cardinality(clients_mutex) <= 1
          /\ \A t \in Threads :
                (ReadsDirectory(t) \/ (t \in Sessions /\ WroteDirectory(t)))
                    => clients_mutex = {t})
    /\ [][(active_clients' # active_clients /\ ~Exited')
              => ChangesUnderLock]_vars

\* A broadcast is iterating over two entries under the lock while one
\* session waits to insert and the other two wait to look up or to erase.
C11_Witness ==
    /\ pc[Console] = "bcast_send"
    /\ Len(udp_sent[Console]) = 1
    /\ Cardinality(active_clients) = 2
    /\ \E t \in Sessions : pc[t] = "reg_lock"
    /\ \E t \in Sessions : pc[t] = "route_lock"
    /\ \E t \in Sessions : pc[t] = "unreg_lock"

------------------------------------------------------------------------------
(* Concurrent registration *)

\* The value of a string of decimal digits, stated without stoi.
RECURSIVE DecimalValue(_)
DecimalValue(seg) ==
    IF seg = <<>> THEN 0
    ELSE 10 * DecimalValue(SubSeq(seg, 1, Len(seg) - 1))
             + (CHOOSE d \in 0..9 :
                    <<"0", "1", "2", "3", "4", "5", "6", "7", "8", "9">>[d + 1]
                        = seg[Len(seg)])

\* No session has disconnected, and the sessions that parsed a first payload
\* named pairwise distinct identities.
DistinctHandshakes ==
    /\ \A t \in Sessions :
          pc[t] \notin {"close", "unreg_lock", "unreg_ret", "done", "exited"}
    /\ \A t \in Sessions : \A u \in Sessions :
          (t # u /\ (pc[t] = "reg_lock" \/ Live(t))
                 /\ (pc[u] = "reg_lock" \/ Live(u)))
              => campus_name[t] # campus_name[u]

\* The entry of session t is the one its registration wrote: its own open
\* handle and, while the payload is in scope, the port the payload gave.
HoldsOwnEntry(t) ==
    /\ Found(campus_name[t])
    /\ Lookup(campus_name[t]).tcp_socket = client_sock[t]
    /\ open_fd[client_sock[t]] = {t}
    /\ OwnerOf(campus_name[t]) = t
    /\ (initial_msg[t] # <<>> /\ WellFormedRegistration(initial_msg[t])) =>
           /\ Lookup(campus_name[t]).campus_name = BeforeColon(initial_msg[t])
           /\ Lookup(campus_name[t]).udp_addr.sin_port
                  = DecimalValue(AfterColon(initial_msg[t]))

\* An entry is replaced or removed only by the insert or the erase of a
\* session naming its key (or with the process).
EntryKeptByOthers ==
    \A e \in active_clients :
        e \notin active_clients' =>
            \/ Exited'
            \/ \E t \in Sessions :
                  /\ campus_name[t] = e.campus_name
                  /\ pc[t] \in {"reg_lock", "unreg_lock"}
                  /\ pc'[t] \in {"reg_welcome", "unreg_ret"}

\* The parse of every well-formed first payload succeeds.
WellFormedAccepted ==
    \A p \in RegPayloads :
        WellFormedRegistration(p) => RegOutcome(p) = "reg_lock"

\* C12: for connections registering concurrently with pairwise distinct
\* identities and well-formed payloads, under every interleaving no
\* registration fails, the directory has exactly one entry per registered
\* connection, and each entry holds the stream handle and the datagram port
\* of the connection that registered it.
C12_ConcurrentRegistration ==
    /\ [](/\ WellFormedAccepted
          /\ DistinctHandshakes =>
                /\ Cardinality(active_clients)
                       = Cardinality({t \in Sessions : Live(t)})
                /\ \A t \in Sessions : Live(t) => HoldsOwnEntry(t))
    /\ [][EntryKeptByOthers]_vars

\* Three connections are registered under three identities; the connection
\* accepted first was the last to insert and is still inside its handshake.
C12_Witness ==
    /\ DistinctHandshakes
    /\ Cardinality(active_clients) = 3
    /\ pc[1] = "reg_unlock"
    /\ WellFormedRegistration(initial_msg[1])
    /\ Live(2) /\ Live(3)

------------------------------------------------------------------------------
(* Lifecycle of a session *)

\* The positions of the disconnect path, in the order the code runs them.
ClosedPath == <<"close", "unreg_lock", "unreg_ret", "done">>

\* The step is session t's close(client_sock) on the disconnect path.
ClosesHandle(t) == pc[t] = "close" /\ pc'[t] = "unreg_lock"

\* The step is session t's active_clients.erase(campus_name).
InvokesRemoval(t) == pc[t] = "unreg_lock" /\ pc'[t] = "unreg_ret"

\* The step is session t's insert into the directory.
CreatesEntry(t) == pc[t] = "reg_lock" /\ pc'[t] = "reg_welcome"

\* The disconnect path is entered from the receive loop only, runs forward
\* one position at a time, and closes the session's own open handle.
ClosedOnce(t) ==
    /\ (pc'[t] = "close" /\ pc[t] # "close") => pc[t] = "recv_msg"
    /\ \A i \in 1..4 :
          (pc[t] = ClosedPath[i] /\ pc'[t] # pc[t]) =>
              \/ pc'[t] = "exited"
              \/ i < 4 /\ pc'[t] = ClosedPath[i + 1]
    /\ ClosesHandle(t) =>
          /\ open_fd[client_sock[t]] = {t}
          /\ open_fd'[client_sock[t]] = {}
    /\ InvokesRemoval(t) =>
          active_clients' = MapErase(active_clients, campus_name[t])

\* A failed handshake closes the handle and returns: it never reaches the
\* removal and never changes the directory.
FailedNeverRemoves(t) ==
    /\ pc[t] = "reg_fail" => pc'[t] \in {"reg_fail", "rejected", "exited"}
    /\ pc[t] = "rejected" => pc'[t] \in {"rejected", "exited"}
    /\ (pc[t] = "reg_fail" /\ pc'[t] = "rejected") =>
          /\ active_clients' = active_clients
          /\ open_fd[client_sock[t]] = {t}
          /\ open_fd'[client_sock[t]] = {}

\* An entry appears only by the one insert of a handshake, which is not
\* run again by a session that has run it.
CreatedOnce(t) ==
    /\ (pc[t] \notin {"unborn", "recv_reg", "reg_lock"}) => pc'[t] # "reg_lock"
    /\ CreatesEntry(t) =>
          active_clients' = MapPut(active_clients, NewClientInfo(t))

\* The directory gains entries by inserts only, one at a time.
GainedByInsert ==
    (active_clients' \ active_clients # {}) =>
        /\ Cardinality(active_clients' \ active_clients) = 1
        /\ \E t \in Sessions : CreatesEntry(t)

------------------------------------------------------------------------------
(* Order of routed messages *)

\* Session t is inside a call of route_tcp_message or send_udp_broadcast.
Routing(t) == InLoop(t) /\ pc[t] # "recv_msg"

\* The step is a recv of session t's loop returning (a payload, EOF or an
\* error).
ReadsNext(t) == pc[t] = "recv_msg" /\ pc'[t] # "recv_msg" /\ ~Exited'

\* One sequential read/route path: session t reads its next payload only
\* when nothing of the previous one is left to do; while a payload is being
\* routed it is not replaced; a directed payload whose destination was found
\* is written, in its routed form and on the handle of the destination's
\* entry, before control returns to the recv.
SequentialPath(t) ==
    /\ ReadsNext(t) => message[t] = <<>> /\ tcp_sent[t] = <<>>
    /\ (Routing(t) /\ Routing(t)') => message'[t] = message[t]
    /\ (Routing(t) /\ pc'[t] = "recv_msg") =>
          pc[t] \in {"route_ret", "bcast_ret"}
    /\ pc[t] = "route_lock" =>
          pc'[t] \in {"route_lock", "route_send", "route_notfound", "exited"}
    /\ pc[t] = "route_send" => pc'[t] \in {"route_send", "route_ret", "exited"}
    /\ WritesRouted(t) =>
          /\ Len(tcp_sent'[t]) = 1
          /\ tcp_sent'[t][1].fd = Lookup(BeforeColon(message[t])).tcp_socket
          /\ tcp_sent'[t][1].data
                 = RoutedForm(campus_name[t], AfterColon(message[t]))

------------------------------------------------------------------------------
(* Routing and broadcasting leave the directory alone *)

\* The step is one of thread t inside route_tcp_message or
\* send_udp_broadcast, up to and including the return.
RoutingStep(t) ==
    /\ pc[t] \in {"route_lock", "route_send", "route_notfound", "route_ret",
                   "bcast_lock", "bcast_send", "bcast_ret"}
    /\ pc'[t] # pc[t]
    /\ ~Exited'

\* No step of a routing or broadcasting call changes the directory, whatever
\* its send or sendto returned.
RoutingKeepsDirectory ==
    \A t \in Threads : RoutingStep(t) => active_clients' = active_clients

\* An entry leaves the directory only by the erase on the disconnect path of
\* the session that wrote it (or with the process).
RemovedByOwnSession ==
    \A e \in active_clients :
        e \notin active_clients' =>
            Exited' \/ InvokesRemoval(OwnerOf(e.campus_name))

\* C15: routing and broadcasting never change the directory, whether each
\* write or datagram send succeeded or failed; an entry whose stream write
\* failed is removed only by its own session's disconnect path.
C15_RoutingKeepsEntries == [][RoutingKeepsDirectory /\ RemovedByOwnSession]_vars

------------------------------------------------------------------------------
(* The states of a peer session *)

\* The state of the session whose thread is at position p.
Phase(p) ==
    CASE p = "unborn" -> "None"
      [] p \in {"recv_reg", "reg_lock"} -> "Connected"
      [] p \in {"reg_fail", "rejected"} -> "Failed"
      [] p \in {"reg_welcome", "reg_unlock"} -> "Registered"
      [] p = "recv_msg" -> "Reading"
      [] p \in {"route_lock", "route_send", "route_notfound", "route_ret",
                "bcast_lock", "bcast_send", "bcast_ret"} -> "Routing"
      [] p \in {"close", "unreg_lock", "unreg_ret", "done"} -> "Closed"
      [] OTHER -> "Exited"

\* Connected -> Registered -> (Reading <-> Routing) -> Closed, and the
\* failure of the handshake; the process may exit in any state.
PhaseOrder ==
    { <<"None", "Connected">>, <<"Connected", "Registered">>,
      <<"Connected", "Failed">>, <<"Registered", "Reading">>,
      <<"Reading", "Routing">>, <<"Routing", "Reading">>,
      <<"Reading", "Closed">> }

\* The step of session t stays in its state, follows PhaseOrder, or is the
\* exit of the process; it becomes Registered by its own insert.
FollowsPhases(t) ==
    /\ \/ Phase(pc'[t]) = Phase(pc[t])
       \/ <<Phase(pc[t]), Phase(pc'[t])>> \in PhaseOrder
       \/ Exited'
    /\ (Phase(pc[t]) = "Connected" /\ Phase(pc'[t]) = "Registered") =>
          /\ NewClientInfo(t) \in active_clients'
          /\ NewClientInfo(t).campus_name
                 = BeforeColon(initial_msg[t])

\* From its registration to the end of its disconnect path the session
\* keeps the identity it registered.
KeepsIdentity(t) ==
    (Phase(pc[t]) \in {"Registered", "Reading", "Routing"}
     /\ Phase(pc'[t]) \in {"Registered", "Reading", "Routing", "Closed"}
     /\ pc'[t] # "done")
        => campus_name'[t] = campus_name[t]

\* What the session's step writes or sends for the payload being routed
\* carries the session's identity as the sender.
CarriesSender(t) ==
    /\ WritesRouted(t) =>
          tcp_sent'[t][1].data
              = RoutedForm(campus_name[t], AfterColon(message[t]))
    /\ (pc[t] = "bcast_send" /\ udp_sent'[t] # udp_sent[t] /\ ~Exited') =>
          udp_sent'[t][Len(udp_sent'[t])].data = Announcement(t)

\* C16: a peer session follows Connected -> Registered -> (Reading <->
\* Routing) -> Closed: it hands a payload to the router only after its own
\* registration succeeded, every payload it routes carries as sender the
\* identity given in that registration, and once Closed it routes no further
\* payload.
C16_SessionLifecycle ==
    [][\A t \in Sessions :
          FollowsPhases(t) /\ KeepsIdentity(t) /\ CarriesSender(t)]_vars

\* One session is routing a payload under the identity it registered while
\* another has closed and a third failed its handshake.
C16_Witness ==
    \E t \in Sessions : \E u \in Sessions : \E v \in Sessions :
        /\ pc[t] = "route_ret"
        /\ Len(tcp_sent[t]) = 1
        /\ tcp_sent[t][1].data = RoutedForm(<<"A">>, <<"h", ":", "i">>)
        /\ Phase(pc[u]) = "Closed"
        /\ Phase(pc[v]) = "Failed"

------------------------------------------------------------------------------
(* The confirmation is the first payload on a new stream *)

\* The confirmation has been written to the stream of connection c.
Welcomed(c) == pc[c] = "reg_unlock" \/ InLoop(c) \/ pc[c] = "close"

\* The step of thread t is a send on a stream.
WritesStream(t) == tcp_sent'[t] # tcp_sent[t] /\ tcp_sent'[t] # <<>>

\* A write reaches the stream of a connection only if it is that
\* connection's confirmation, written by its own handshake, or if the
\* confirmation has been written before.
AfterConfirmation(t) ==
    WritesStream(t) =>
        \A c \in tcp_sent'[t][1].conn :
            \/ Welcomed(c)
            \/ /\ c = t
               /\ pc[t] = "reg_welcome"
               /\ tcp_sent'[t][1].data = WelcomeMsg(campus_name[t])

\* C17: after a successful registration the confirmation is the first
\* payload written to the new session's stream: no routed message and no
\* 'not active' notice is written to it before, under every interleaving.
C17_ConfirmationFirst ==
    [][\A t \in Sessions :
          /\ AfterConfirmation(t)
          /\ (pc[t] = "reg_welcome" /\ WritesStream(t)) =>
                 tcp_sent'[t][1].conn = {t}]_vars

------------------------------------------------------------------------------
(* The handles stored in the directory *)

\* The handle stored in entry e is open on the connection of the session
\* that registered e.
HandleOfOwner(e) == open_fd[e.tcp_socket] = {OwnerOf(e.campus_name)}

\* C18: in every reachable state the stream handle stored in any directory
\* entry is an open handle of the session that registered the entry, so a
\* routed message is never written to a connection other than the one
\* registered under the destination identity.
C18_EntryHandleOpen ==
    /\ [](\A e \in active_clients : HandleOfOwner(e))
    /\ [][\A t \in Sessions :
             WritesRouted(t) =>
                 tcp_sent'[t][1].conn = {OwnerOf(Destination(message[t]))}]_vars

------------------------------------------------------------------------------
(* Acquisition and release of the lock *)

\* Thread t is at a lock_guard, waiting for clients_mutex.
Waiting(t) == pc[t] \in {"reg_lock", "route_lock", "bcast_lock", "unreg_lock"}

\* The positions inside the scope of a lock_guard; route_ret is reached with
\* the lock (after the lookup) or without it (no separator).
Guarded == {"reg_welcome", "reg_unlock", "route_send", "route_notfound",
            "route_ret", "bcast_send", "bcast_ret", "unreg_ret"}

\* A thread at a lock_guard does not hold the lock already; the lock is held
\* only inside the scope of a guard, so it has been released on every path
\* by the time the thread blocks in recv or getline, or ends.
LockDiscipline ==
    /\ \A t \in Threads : Waiting(t) => t \notin clients_mutex
    /\ \A t \in clients_mutex : pc[t] \in Guarded
    /\ Cardinality(clients_mutex) <= 1

------------------------------------------------------------------------------
(* The reserved destination *)

\* The payload in session t's hands is addressed to the reserved token.
ToReserved(t) == HasColon(message[t]) /\ BeforeColon(message[t]) = BROADCAST

\* Some session is registered under the reserved token.
ReservedRegistered == Found(BROADCAST)

\* A payload addressed to BROADCAST goes to the broadcaster, with no lookup
\* and no stream write, and its datagrams go to the entry registered under
\* BROADCAST too; no lookup is ever made for the reserved token.
ReservedFannedOut ==
    \A t \in Sessions :
        /\ (Routing(t) /\ ToReserved(t)) =>
              /\ pc[t] \in {"bcast_lock", "bcast_send", "bcast_ret"}
              /\ tcp_sent[t] = <<>>
        /\ (pc[t] = "bcast_ret" /\ ReservedRegistered) =>
              \E i \in 1..Len(udp_sent[t]) :
                  /\ udp_sent[t][i].name = BROADCAST
                  /\ udp_sent[t][i].addr = Lookup(BROADCAST).udp_addr
                  /\ udp_sent[t][i].data = Announcement(t)
        /\ pc[t] \in {"route_lock", "route_send", "route_notfound"} =>
              Destination(message[t]) # BROADCAST

\* No directed message is written to the connection of a session that is
\* registered as BROADCAST.
NeverDirectedToReserved ==
    \A t \in Sessions :
        WritesRouted(t) =>
            \A c \in tcp_sent'[t][1].conn :
                ~(Live(c) /\ campus_name[c] = BROADCAST)

\* C20: a payload whose destination is BROADCAST is always fanned out as
\* datagrams and never causes a directory lookup or a stream write, even
\* when some session has registered the identity BROADCAST; such a session
\* is in the directory and receives broadcasts but never receives a directed
\* message.
C20_ReservedAlwaysBroadcast ==
    []ReservedFannedOut /\ [][NeverDirectedToReserved]_vars

------------------------------------------------------------------------------
(* The client: main's input loop and receive_handler *)

\* Payloads and datagrams that can wait unread at the client.
MaxPending == 2

\* Lines typed at the client's console: the two commands that end the loop,
\* an empty line, and a message.
ClientLines ==
    { <<"e", "x", "i", "t">>, <<"q", "u", "i", "t">>, <<>>, <<"B", ":", "h">> }

\* line == "exit" || line == "quit"
IsQuit(l) == l = <<"e", "x", "i", "t">> \/ l = <<"q", "u", "i", "t">>

\* What a read of running by thread th can yield. running is a plain bool
\* written and read by both threads without synchronization: a thread sees
\* its own write, and may or may not yet see the other thread's.
RunningRead(th) ==
    IF running THEN {TRUE}
    ELSE IF th \in running_set_by THEN {FALSE}
    ELSE {TRUE, FALSE}

\* The descriptors on which a read would not block: the stream has a payload
\* waiting, or is at EOF (closed by the server, shut down locally) or in
\* error; a datagram is waiting.
Ready ==
    (IF tcp_pending > 0 \/ tcp_sock \in {"peer_closed", "shut", "reset"}
     THEN {"tcp"} ELSE {})
    \cup (IF udp_pending > 0 THEN {"udp"} ELSE {})

\* while (running), in main.
MainWhile ==
    /\ main_pc = "while"
    /\ \E seen \in RunningRead("main") :
        /\ main_pc' = IF seen THEN "getline" ELSE "join"
        /\ loop_end' = IF seen THEN loop_end ELSE "stopped"
    /\ UNCHANGED <<server_vars, receiver_pc, running, running_set_by,
                   tcp_sock, udp_sock, readfds, main_line, tcp_pending,
                   udp_pending>>

\* getline returns a line.
MainGetline ==
    /\ main_pc = "getline"
    /\ \E l \in ClientLines : main_line' = l
    /\ main_pc' = "dispatch"
    /\ UNCHANGED <<server_vars, receiver_pc, running, running_set_by,
                   tcp_sock, udp_sock, readfds, tcp_pending, udp_pending,
                   loop_end>>

\* getline fails (end of input): break, with running left as it is and no
\* shutdown of the stream.
MainGetlineEof ==
    /\ main_pc = "getline"
    /\ main_pc' = "join"
    /\ loop_end' = "eof"
    /\ UNCHANGED <<server_vars, receiver_pc, running, running_set_by,
                   tcp_sock, udp_sock, readfds, main_line, tcp_pending,
                   udp_pending>>

\* exit or quit: running = false.
MainExit ==
    /\ main_pc = "dispatch"
    /\ IsQuit(main_line)
    /\ running' = FALSE
    /\ running_set_by' = running_set_by \cup {"main"}
    /\ loop_end' = "exit"
    /\ main_pc' = "shutdown"
    /\ UNCHANGED <<server_vars, receiver_pc, tcp_sock, udp_sock, readfds,
                   main_line, tcp_pending, udp_pending>>

\* shutdown(tcp_sock, SHUT_RDWR); break. On a connection that was reset the
\* call fails and changes nothing.
MainShutdown ==
    /\ main_pc = "shutdown"
    /\ tcp_sock' = IF tcp_sock = "reset" THEN tcp_sock ELSE "shut"
    /\ main_pc' = "join"
    /\ UNCHANGED <<server_vars, receiver_pc, running, running_set_by,
                   udp_sock, readfds, main_line, tcp_pending, udp_pending,
                   loop_end>>

\* An empty line: continue.
MainEmpty ==
    /\ main_pc = "dispatch"
    /\ main_line = <<>>
    /\ main_pc' = "while"
    /\ UNCHANGED <<server_vars, receiver_pc, running, running_set_by,
                   tcp_sock, udp_sock, readfds, main_line, tcp_pending,
                   udp_pending, loop_end>>

\* send(tcp_sock, line): it returns (a failure is only reported) and the loop
\* goes on.
MainSend ==
    /\ main_pc = "dispatch"
    /\ ~IsQuit(main_line) /\ main_line # <<>>
    /\ main_pc' = "while"
    /\ UNCHANGED <<server_vars, receiver_pc, running, running_set_by,
                   tcp_sock, udp_sock, readfds, main_line, tcp_pending,
                   udp_pending, loop_end>>

\* send on a connection the server has closed or reset can raise SIGPIPE,
\* which is not handled: the process is killed, both threads with it, and
\* the kernel closes its descriptors.
MainSendSigpipe ==
    /\ main_pc = "dispatch"
    /\ ~IsQuit(main_line) /\ main_line # <<>>
    /\ tcp_sock \in {"peer_closed", "reset"}
    /\ main_pc' = "killed"
    /\ receiver_pc' = "killed"
    /\ tcp_sock' = "closed"
    /\ udp_sock' = "closed"
    /\ UNCHANGED <<server_vars, running, running_set_by, readfds, main_line,
                   tcp_pending, udp_pending, loop_end>>

\* receiver_thread.join() returns once receive_handler has returned.
MainJoin ==
    /\ main_pc = "join"
    /\ receiver_pc = "returned"
    /\ main_pc' = "close"
    /\ UNCHANGED <<server_vars, receiver_pc, running, running_set_by,
                   tcp_sock, udp_sock, readfds, main_line, tcp_pending,
                   udp_pending, loop_end>>

\* close(tcp_sock); close(udp_sock); return.
MainClose ==
    /\ main_pc = "close"
    /\ tcp_sock' = "closed"
    /\ udp_sock' = "closed"
    /\ main_pc' = "returned"
    /\ UNCHANGED <<server_vars, receiver_pc, running, running_set_by,
                   readfds, main_line, tcp_pending, udp_pending, loop_end>>

\* while (running), in receive_handler; then FD_ZERO and the two FD_SET.
ReceiverWhile ==
    /\ receiver_pc = "while"
    /\ \E seen \in RunningRead("receiver") :
        /\ receiver_pc' = IF seen THEN "select" ELSE "returned"
        /\ readfds' = IF seen THEN {"tcp", "udp"} ELSE readfds
    /\ UNCHANGED <<server_vars, main_pc, running, running_set_by, tcp_sock,
                   udp_sock, main_line, tcp_pending, udp_pending, loop_end>>

\* select, with no timeout, returns when a descriptor is ready and leaves
\* the ready ones in readfds.
ReceiverSelect ==
    /\ receiver_pc = "select"
    /\ Ready # {}
    /\ readfds' = Ready
    /\ receiver_pc' = "tcp"
    /\ UNCHANGED <<server_vars, main_pc, running, running_set_by, tcp_sock,
                   udp_sock, main_line, tcp_pending, udp_pending, loop_end>>

\* select fails with an error other than EINTR: break.
ReceiverSelectError ==
    /\ receiver_pc = "select"
    /\ receiver_pc' = "returned"
    /\ UNCHANGED <<server_vars, main_pc, running, running_set_by, tcp_sock,
                   udp_sock, readfds, main_line, tcp_pending, udp_pending,
                   loop_end>>

\* FD_ISSET(tcp_fd) is false: on to the datagram socket.
ReceiverTcpSkip ==
    /\ receiver_pc = "tcp"
    /\ "tcp" \notin readfds
    /\ receiver_pc' = "udp"
    /\ UNCHANGED <<server_vars, main_pc, running, running_set_by, tcp_sock,
                   udp_sock, readfds, main_line, tcp_pending, udp_pending,
                   loop_end>>

\* recv returns a payload, which is printed.
ReceiverTcpData ==
    /\ receiver_pc = "tcp"
    /\ "tcp" \in readfds
    /\ tcp_pending > 0
    /\ tcp_pending' = tcp_pending - 1
    /\ receiver_pc' = "udp"
    /\ UNCHANGED <<server_vars, main_pc, running, running_set_by, tcp_sock,
                   udp_sock, readfds, main_line, udp_pending, loop_end>>

\* recv returns 0 (EOF) or fails: running = false; break.
ReceiverTcpClosed ==
    /\ receiver_pc = "tcp"
    /\ "tcp" \in readfds
    /\ tcp_pending = 0
    /\ tcp_sock \in {"peer_closed", "shut", "reset"}
    /\ running' = FALSE
    /\ running_set_by' = running_set_by \cup {"receiver"}
    /\ receiver_pc' = "returned"
    /\ UNCHANGED <<server_vars, main_pc, tcp_sock, udp_sock, readfds,
                   main_line, tcp_pending, udp_pending, loop_end>>

\* FD_ISSET(udp_fd): recvfrom returns a datagram, which is printed; the loop
\* goes round.
ReceiverUdp ==
    /\ receiver_pc = "udp"
    /\ udp_pending' =
           IF "udp" \in readfds /\ udp_pending > 0 THEN udp_pending - 1
           ELSE udp_pending
    /\ receiver_pc' = "while"
    /\ UNCHANGED <<server_vars, main_pc, running, running_set_by, tcp_sock,
                   udp_sock, readfds, main_line, tcp_pending, loop_end>>

\* The server writes a payload to the client's stream.
ServerSends ==
    /\ tcp_sock = "connected"
    /\ tcp_pending < MaxPending
    /\ tcp_pending' = tcp_pending + 1
    /\ UNCHANGED <<server_vars, main_pc, receiver_pc, running,
                   running_set_by, tcp_sock, udp_sock, readfds, main_line,
                   udp_pending, loop_end>>

\* A broadcast datagram arrives at the client's port.
ServerBroadcasts ==
    /\ udp_sock = "bound"
    /\ udp_pending < MaxPending
    /\ udp_pending' = udp_pending + 1
    /\ UNCHANGED <<server_vars, main_pc, receiver_pc, running,
                   running_set_by, tcp_sock, udp_sock, readfds, main_line,
                   tcp_pending, loop_end>>

\* The server closes the connection (its process ends, or it closed the
\* socket): the client's stream is at EOF after what is still unread.
ServerCloses ==
    /\ tcp_sock = "connected"
    /\ tcp_sock' = "peer_closed"
    /\ UNCHANGED <<server_vars, main_pc, receiver_pc, running,
                   running_set_by, udp_sock, readfds, main_line, tcp_pending,
                   udp_pending, loop_end>>

\* The connection is reset: unread payloads are lost and recv fails.
ConnectionResets ==
    /\ tcp_sock = "connected"
    /\ tcp_sock' = "reset"
    /\ tcp_pending' = 0
    /\ UNCHANGED <<server_vars, main_pc, receiver_pc, running,
                   running_set_by, udp_sock, readfds, main_line, udp_pending,
                   loop_end>>

\* A step of the main thread that needs nothing from outside the process.
MainStep ==
    \/ MainWhile
    \/ MainExit
    \/ MainShutdown
    \/ MainEmpty
    \/ MainSend
    \/ MainSendSigpipe
    \/ MainJoin
    \/ MainClose

\* A step of the receiver thread.
ReceiverStep ==
    \/ ReceiverWhile
    \/ ReceiverSelect
    \/ ReceiverTcpSkip
    \/ ReceiverTcpData
    \/ ReceiverTcpClosed
    \/ ReceiverUdp

\* What the operator, the server and the network do.
ClientEnvironment ==
    \/ MainGetline
    \/ MainGetlineEof
    \/ ReceiverSelectError
    \/ ServerSends
    \/ ServerBroadcasts
    \/ ServerCloses
    \/ ConnectionResets

ClientNext == MainStep \/ ReceiverStep \/ ClientEnvironment

\* The client with fair scheduling of its two threads: a thread that can run
\* does. Nothing is assumed of the operator, the server and the network.
ClientSpec ==
    /\ Init /\ [][ClientNext]_vars
    /\ WF_vars(MainStep) /\ WF_vars(ReceiverStep)

\* The client has terminated: the receiver thread has left its loop, main
\* has joined it and returned, and both sockets are closed.
Terminated ==
    /\ receiver_pc = "returned"
    /\ main_pc = "returned"
    /\ tcp_sock = "closed"
    /\ udp_sock = "closed"

\* The client terminates once its input loop has ended in the way named.
TerminatesAfter(why) == (loop_end = why) ~> Terminated

\* C21: the client always terminates once its input loop ends, whether by
\* exit or quit, by end of input on the console, or because the receiver saw
\* the server close the connection: the receiver thread leaves its select
\* loop, main's join returns, and both sockets are closed.
C21_ClientTerminates ==
    /\ TerminatesAfter("exit")
    /\ TerminatesAfter("eof")
    /\ TerminatesAfter("stopped")

==============================================================================
